---- MODULE Spec2Model ----
(***************************************************************************)
(* Model of the resumable summary generation of                            *)
(* summaryengine/generate_file_summaries.js: the loop of                   *)
(* generateFileSummaries over the rows of an Excel report, its progress    *)
(* file (progress_summaries.json), the final workbook, and a process that  *)
(* can be killed at any point and started again.                           *)
(***************************************************************************)
EXTENDS Naturals, Sequences, FiniteSets, TLC

(* ------------------------------------------------------------------ *)
(* Bounds and program constants                                        *)
(* ------------------------------------------------------------------ *)

\* Largest number of rows in an Excel report.
MaxFiles == 31

\* "Save progress every 10 files": processed % 10 === 0
SaveEvery == 10

\* generateSummaryWithClaude(..., retries = 3)
Retries == 3

\* const waitTime = attempt * 10000 (rate limited), in ms
RateLimitStep == 10000

\* const waitTime = 5000 (any other error), in ms
OtherWait == 5000

\* Rows 1..FreeRows of report "B" get every sequence of outcomes of the
\* generation call that ends as the row's fixed result; all other rows get one
\* sequence.
FreeRows == 4
\* runs of the pipeline that are followed
MaxPipelineRuns == 2

\* The Excel reports (excelReportPath values) that exist on disk.
Paths == {"A", "B"}

NoPath == "none"

\* Row counts of the reports the model considers.
Lens == {0, 1, SaveEvery - 1, SaveEvery, SaveEvery + 1, 2 * SaveEvery, MaxFiles}

\* Row counts of report "B", the one with the free rows.
ShortLens == {0, SaveEvery + 1}

LensOf(p) == IF p = "B" THEN ShortLens ELSE Lens

(* ------------------------------------------------------------------ *)
(* Remote behaviour: a fixed function of the item                      *)
(* ------------------------------------------------------------------ *)

\* What s3.send / the stream yields for the object of row n: readable text,
\* content that the heuristic rejects as binary, or an error.
S3Outcome(n) ==
  CASE n % 4 = 2 -> "binary"
    [] n % 4 = 3 -> "error"
    [] OTHER     -> "text"

\* What anthropic.messages.create does for row n on every attempt.
ClaudeOutcome(n) == IF n % 4 = 0 THEN "fail" ELSE "ok"

\* How one attempt can fail: HTTP 429, another error of the call, the 60 s
\* timer winning the race, or a response whose content[0].text does not exist.
Failures == {"429", "error", "timeout", "unusable"}

IsFree(key) == key[1] = "B" /\ key[2] <= FreeRows

\* The outcomes attempt a of the generation call for the object key can have.
\* The result of the whole call stays the fixed ClaudeOutcome of the row.
AttemptOutcomes(key, a) ==
  IF ClaudeOutcome(key[2]) = "ok"
    THEN IF IsFree(key) /\ a < Retries THEN Failures \cup {"ok"} ELSE {"ok"}
    ELSE IF IsFree(key) THEN Failures ELSE {"error"}

(* ------------------------------------------------------------------ *)
(* readFilesFromExcel                                                  *)
(* ------------------------------------------------------------------ *)

\* One entry per row of sheet 'Uploads'; key identifies the object.
FileEntry(p, n) == [key |-> <<p, n>>, fileName |-> <<p, n, "name">>,
                    directory |-> <<p, "dir">>]

RowsOf(p, len) == [n \in 1..len |-> FileEntry(p, n)]

readFilesFromExcel(cat, p) == cat[p]

(* ------------------------------------------------------------------ *)
(* downloadFileContent / generateSummaryWithClaude (results only)      *)
(* ------------------------------------------------------------------ *)

NoContent == [ok |-> FALSE, of |-> <<>>]

\* null for binary content and for any download error, the text otherwise
downloadFileContent(file) ==
  IF S3Outcome(file.key[2]) = "text"
    THEN [ok |-> TRUE, of |-> file.key]
    ELSE NoContent

BinaryBriefing == [text |-> "Binary file or unable to read content", of |-> <<>>]
ApiFailure == [text |-> "Error generating summary (API failure after retries)", of |-> <<>>]
NoBriefing == [text |-> "undefined", of |-> <<>>]
\* briefing = `CRITICAL ERROR: ${error.message}` of the catch around one file
CriticalError == [text |-> "CRITICAL ERROR", of |-> <<>>]

generateSummaryWithClaude(file, fileContent) ==
  IF ClaudeOutcome(file.key[2]) = "ok"
    THEN [text |-> "summary", of |-> fileContent.of]
    ELSE ApiFailure

\* The row pushed to summaries for a file and its briefing.
SummaryRow(file, b) ==
  [fileName |-> file.fileName, directory |-> file.directory, briefing |-> b]

(* ------------------------------------------------------------------ *)
(* Files on disk                                                       *)
(* ------------------------------------------------------------------ *)

Absent == [tag |-> "absent"]
\* a file that exists but holds a truncated / partly written document
Corrupt == [tag |-> "corrupt"]

\* JSON.stringify({excelPath, summaries, lastProcessed, timestamp})
Snapshot(p, s, n) ==
  [tag |-> "snapshot", excelPath |-> p, summaries |-> s, lastProcessed |-> n]

IsSnapshot(f) == f.tag = "snapshot"

Workbook(rows) == [tag |-> "workbook", rows |-> rows]

IsWorkbook(f) == f.tag = "workbook"

VARIABLES
  catalog,          \* path -> rows of the Excel report at that path
  progressFile,     \* reports/progress_summaries.json
  output,           \* path -> file_summaries_<date>.xlsx of that report
  lastSaved,        \* history: last snapshot completely written since the
                    \* progress file was last deleted
  pc,               \* position of the process in generateFileSummaries
  excelReportPath,  \* argument of the running generateFileSummaries
  files,            \* const files = readFilesFromExcel(excelReportPath)
  summaries,        \* let summaries
  startIndex,       \* let startIndex
  processed,        \* let processed
  i,                \* loop variable (0-based, as in the code)
  content,          \* const content (of the current iteration)
  briefing,         \* let briefing (of the current iteration)
  calls,            \* remote calls issued by the running process
  attempt,          \* loop variable of generateSummaryWithClaude (0: no call)
  outcomes,         \* outcomes of the attempts of the current call, in order
  waits,            \* the waits (ms) between attempts of the current call
  abandoned,        \* API calls that lost the race to the timer and have
                    \* not settled yet
  entry,            \* the program the current process was started as
  apiKey,           \* whether CLAUDE_API_KEY is set in the environment
  reportState,      \* path -> what is found at the path of the report
  object,           \* the chunks the body of the downloaded object yields
  Body,             \* response.Body: the chunks not read yet
  chunks,           \* const chunks of downloadFileContent
  totalSize,        \* let totalSize of downloadFileContent
  threw,            \* whether the stream threw into the catch
  fetched,          \* the value downloadFileContent returned
  dpc,              \* position of the process in downloadFileContent
  apiPromise,       \* attempt -> state of client.messages.create(...)
  timeoutPromise,   \* attempt -> state of the 60 s timer of the attempt
  raceWinner,       \* attempt -> which promise settled Promise.race
  rAttempt,         \* loop variable attempt of generateSummaryWithClaude
  rResult,          \* what generateSummaryWithClaude returned
  rpc,              \* position inside generateSummaryWithClaude
  unhandled,        \* 'unhandledRejection' events raised in the process
  batchNum,         \* loop variable of main of the batch orchestrator
  allSummaries,     \* let allSummaries of that main
  freshStart,       \* history: no progress file when that main started
  saveFailed,       \* history: a save of processBatch failed in this run
  ppc,              \* position of main of run_complete_pipeline.js
  started,          \* the steps whose command was spawned, in order
  closeCode,        \* step -> code of the 'close' event of its child
  errorFired,       \* step -> whether the 'error' event of its child fired
  promise,          \* step -> state of the promise runCommand returned
  settleCalls,      \* step -> calls of resolve or reject by the handlers
  plog              \* the lines main of the pipeline logged on its way

vars == <<catalog, progressFile, output, lastSaved, pc, excelReportPath, files,
          summaries, startIndex, processed, i, content, briefing, calls,
          attempt, outcomes, waits, abandoned, entry, apiKey, reportState,
          object, Body, chunks, totalSize, threw, fetched, dpc,
          apiPromise, timeoutPromise, raceWinner, rAttempt, rResult, rpc,
          unhandled, batchNum, allSummaries, freshStart, saveFailed,
          ppc, started, closeCode, errorFired, promise, settleCalls, plog>>

disk == <<catalog, progressFile, output, lastSaved>>
client == <<attempt, outcomes, waits, abandoned>>
locals == <<excelReportPath, files, summaries, startIndex, processed, i,
            content, briefing, calls, client>>
\* The files and the process of generateFileSummaries.
run == <<disk, pc, locals>>
\* The environment of the process and the state of one download.
environment == <<apiKey, reportState>>
download == <<object, Body, chunks, totalSize, threw, fetched, dpc>>
\* One call of generateSummaryWithClaude with its promises, main of the
\* batch orchestrator, and main of the pipeline with its child processes.
race == <<apiPromise, timeoutPromise, raceWinner, rAttempt, rResult, rpc,
          unhandled>>
batch == <<batchNum, allSummaries, freshStart, saveFailed>>
pipeline == <<ppc, started, closeCode, errorFired, promise, settleCalls, plog>>
others == <<race, batch, pipeline>>
\* What no step of generateFileSummaries changes.
outside == <<entry, environment, download, others>>

\* "exit0" and "exit1": the process has ended with that exit code without
\* going through generateFileSummaries to its end.
\* "signalled": the handler of SIGINT or SIGTERM has called process.exit(0).
Stopped == {"idle", "nofiles", "done", "failed", "killed", "exit0", "exit1",
            "signalled"}
Running == {"load", "fetch", "generate", "race", "backoff", "delay",
            "push", "save",
            "write", "cleanup"}

\* What can be found at the path of a report: a workbook with the sheet
\* 'Uploads', nothing, a file XLSX.readFile throws on, a workbook without
\* the sheet.
ReportStates == {"ok", "missing", "unreadable", "nosheet"}

\* The value of downloadFileContent: null, or a string of some length.
Null == [null |-> TRUE, len |-> 0]
String(n) == [null |-> FALSE, len |-> n]

\* No download is under way.
NoDownload ==
  /\ object = <<>>
  /\ Body = <<>>
  /\ chunks = <<>>
  /\ totalSize = 0
  /\ threw = FALSE
  /\ fetched = Null
  /\ dpc = "none"

Steps == 1..2

\* No 'close' event yet.
NoClose == [fired |-> FALSE, null |-> FALSE, n |-> 0]

\* No call of generateSummaryWithClaude is followed promise by promise.
NoRace ==
  /\ apiPromise = <<>>
  /\ timeoutPromise = <<>>
  /\ raceWinner = <<>>
  /\ rAttempt = 0
  /\ rResult = NoBriefing
  /\ rpc = "none"
  /\ unhandled = 0

\* The batch orchestrator and the pipeline are not running.
NoJobs ==
  /\ batchNum = 0
  /\ allSummaries = <<>>
  /\ freshStart = TRUE
  /\ saveFailed = FALSE
  /\ ppc = "none"
  /\ started = <<>>
  /\ closeCode = [s \in Steps |-> NoClose]
  /\ errorFired = [s \in Steps |-> FALSE]
  /\ promise = [s \in Steps |-> "none"]
  /\ settleCalls = [s \in Steps |-> 0]
  /\ plog = <<>>

NoOthers == NoRace /\ NoJobs

\* No process has run yet: no file but the reports, nothing in memory.
Quiet ==
  /\ progressFile = Absent
  /\ output = [p \in Paths |-> Absent]
  /\ lastSaved = Absent
  /\ pc = "idle"
  /\ excelReportPath = NoPath
  /\ files = <<>>
  /\ summaries = <<>>
  /\ startIndex = 0
  /\ processed = 0
  /\ i = 0
  /\ content = NoContent
  /\ briefing = NoBriefing
  /\ calls = {}
  /\ attempt = 0
  /\ outcomes = <<>>
  /\ waits = <<>>
  /\ abandoned = 0

Init ==
  /\ catalog \in {[p \in Paths |-> RowsOf(p, l[p])] : l \in {m \in [Paths -> Lens \cup ShortLens] :
                          \A p \in Paths : m[p] \in LensOf(p)}}
  /\ Quiet
  /\ entry = "none"
  /\ apiKey = TRUE
  /\ reportState = [p \in Paths |-> "ok"]
  /\ NoDownload
  /\ NoOthers

\* The outcomes attempt a of the generation call can have in this
\* environment: without the API key every request is refused.
Outcomes(key, a) == IF apiKey THEN AttemptOutcomes(key, a) ELSE {"error"}

\* Where the for loop goes when its variable is j: the body, or past the loop.
LoopHead(j, fs) == IF j < Len(fs) THEN "fetch" ELSE "write"

\* The process's memory is gone once it has exited.
ClearLocals ==
  /\ files' = <<>>
  /\ summaries' = <<>>
  /\ startIndex' = 0
  /\ processed' = 0
  /\ i' = 0
  /\ content' = NoContent
  /\ briefing' = NoBriefing
  /\ calls' = {}
  /\ attempt' = 0
  /\ outcomes' = <<>>
  /\ waits' = <<>>
  /\ abandoned' = 0

(* ------------------------------------------------------------------ *)
(* generateFileSummaries                                               *)
(* ------------------------------------------------------------------ *)

\* The rows readFilesFromExcel returns for the report at p: none when the
\* sheet is not found or reading throws.
ReadReport(p) ==
  IF reportState[p] = "ok" THEN readFilesFromExcel(catalog, p) ELSE <<>>

\* The first steps of generateFileSummaries(p), whoever calls it: the catalog
\* is read; an empty catalog returns null at once.
Begin(p) ==
  /\ excelReportPath' = p
  /\ files' = ReadReport(p)
  /\ pc' = IF Len(ReadReport(p)) = 0 THEN "nofiles" ELSE "load"
  /\ summaries' = <<>>
  /\ startIndex' = 0
  /\ processed' = 0
  /\ i' = 0
  /\ content' = NoContent
  /\ briefing' = NoBriefing
  /\ calls' = {}
  /\ attempt' = 0
  /\ outcomes' = <<>>
  /\ waits' = <<>>
  /\ abandoned' = 0
  /\ UNCHANGED outside
  /\ UNCHANGED disk

\* generateFileSummaries is called by a process of its own.
Start(p) ==
  /\ pc \in Stopped
  /\ Begin(p)

\* Variant: resumes from any parseable progress file, whatever report it
\* names.
ResumeFromAnyReport(pf, p) ==
  IF IsSnapshot(pf) THEN pf.summaries ELSE <<>>

\* "Try to resume from previous run": the progress file is used only if it
\* parses and names the same report; a parse error is logged and ignored.
ResumeFrom(pf, p) ==
  IF IsSnapshot(pf) /\ pf.excelPath = p THEN pf.summaries ELSE <<>>

\* Variant: the saved rows are loaded but the loop starts over at index 0.
LoadProgressLoopFromZero ==
  /\ pc = "load"
  /\ summaries' = ResumeFrom(progressFile, excelReportPath)
  /\ startIndex' = 0
  /\ processed' = Len(ResumeFrom(progressFile, excelReportPath))
  /\ i' = 0
  /\ pc' = LoopHead(0, files)
  /\ UNCHANGED outside
  /\ UNCHANGED <<disk, excelReportPath, files, content, briefing, calls,
                 client>>

\* Variant: the counter of processed files starts at 0 in a resumed run.
LoadProgressCountFromZero ==
  /\ pc = "load"
  /\ summaries' = ResumeFrom(progressFile, excelReportPath)
  /\ startIndex' = Len(ResumeFrom(progressFile, excelReportPath))
  /\ processed' = 0
  /\ i' = Len(ResumeFrom(progressFile, excelReportPath))
  /\ pc' = LoopHead(Len(ResumeFrom(progressFile, excelReportPath)), files)
  /\ UNCHANGED outside
  /\ UNCHANGED <<disk, excelReportPath, files, content, briefing, calls,
                 client>>

LoadProgress ==
  /\ pc = "load"
  /\ summaries' = ResumeFrom(progressFile, excelReportPath)
  /\ startIndex' = Len(ResumeFrom(progressFile, excelReportPath))
  /\ processed' = Len(ResumeFrom(progressFile, excelReportPath))
  /\ i' = Len(ResumeFrom(progressFile, excelReportPath))
  /\ pc' = LoopHead(Len(ResumeFrom(progressFile, excelReportPath)), files)
  /\ UNCHANGED outside
  /\ UNCHANGED <<disk, excelReportPath, files, content, briefing, calls,
                 client>>

\* Variant: a download error is thrown out of the loop instead of being
\* turned into null.
FetchErrorThrows ==
  /\ pc = "fetch"
  /\ IF S3Outcome(files[i + 1].key[2]) = "error"
       THEN /\ pc' = "failed"
            /\ ClearLocals
       ELSE /\ processed' = processed + 1
            /\ calls' = calls \cup {<<"fetch", i>>}
            /\ content' = downloadFileContent(files[i + 1])
            /\ IF downloadFileContent(files[i + 1]).ok
                 THEN /\ pc' = "generate"
                      /\ briefing' = NoBriefing
                 ELSE /\ pc' = "push"
                      /\ briefing' = BinaryBriefing
            /\ UNCHANGED <<files, summaries, startIndex, i, client>>
  /\ UNCHANGED outside
  /\ UNCHANGED <<disk, excelReportPath>>

\* Top of an iteration up to the result of downloadFileContent.
Fetch ==
  /\ pc = "fetch"
  /\ processed' = processed + 1
  /\ calls' = calls \cup {<<"fetch", i>>}
  /\ content' = downloadFileContent(files[i + 1])
  /\ IF downloadFileContent(files[i + 1]).ok
       THEN /\ pc' = "generate"
            /\ briefing' = NoBriefing
       ELSE /\ pc' = "push"
            /\ briefing' = BinaryBriefing
  /\ UNCHANGED outside
  /\ UNCHANGED <<disk, excelReportPath, files, summaries, startIndex, i,
                 client>>

\* Where the loop body goes when generateSummaryWithClaude has returned: the
\* 3 s delay unless this was the last file.
AfterGenerate(n, fs) == IF n < Len(fs) THEN "delay" ELSE "push"

\* The wait before the next attempt after a failure of attempt a.
BackoffWait(kind, a) == IF kind = "429" THEN a * RateLimitStep ELSE OtherWait

\* One iteration of the attempt loop up to the await of Promise.race: the API
\* call is issued and the 60 s timer armed.
\* When the for condition attempt <= retries fails the function returns
\* undefined and briefing.startsWith throws into the catch around the file.
Generate ==
  /\ pc = "generate"
  /\ IF attempt + 1 <= Retries
       THEN /\ attempt' = attempt + 1
            /\ calls' = calls \cup {<<"generate", i>>}
            /\ pc' = "race"
            /\ briefing' = briefing
       ELSE /\ attempt' = attempt
            /\ calls' = calls
            /\ pc' = "push"
            /\ briefing' = CriticalError
  /\ UNCHANGED outside
  /\ UNCHANGED <<disk, excelReportPath, files, summaries, startIndex,
                 processed, i, content, outcomes, waits, abandoned>>

\* The API call resolves first with a usable message: the summary is returned.
AttemptSucceeds ==
  /\ pc = "race"
  /\ "ok" \in Outcomes(files[i + 1].key, attempt)
  /\ outcomes' = Append(outcomes, "ok")
  /\ briefing' = [text |-> "summary", of |-> content.of]
  /\ pc' = AfterGenerate(processed, files)
  /\ UNCHANGED outside
  /\ UNCHANGED <<disk, excelReportPath, files, summaries, startIndex,
                 processed, i, content, calls, attempt, waits, abandoned>>

\* Variant: the 60 s timer winning the race is not treated as an error; the
\* attempt returns what it has.
AttemptFailsTimeoutReturns(kind) ==
  /\ pc = "race"
  /\ kind \in Outcomes(files[i + 1].key, attempt) \ {"ok"}
  /\ outcomes' = Append(outcomes, kind)
  /\ abandoned' = IF kind = "timeout" THEN abandoned + 1 ELSE abandoned
  /\ IF kind # "timeout" /\ attempt < Retries
       THEN /\ waits' = Append(waits, BackoffWait(kind, attempt))
            /\ pc' = "backoff"
            /\ briefing' = briefing
       ELSE /\ waits' = waits
            /\ pc' = AfterGenerate(processed, files)
            /\ briefing' = ApiFailure
  /\ UNCHANGED outside
  /\ UNCHANGED <<disk, excelReportPath, files, summaries, startIndex,
                 processed, i, content, calls, attempt>>

\* Variant: a failed attempt is always followed by a wait and another turn of
\* the loop.
AttemptFailsAlwaysContinues(kind) ==
  /\ pc = "race"
  /\ kind \in Outcomes(files[i + 1].key, attempt) \ {"ok"}
  /\ outcomes' = Append(outcomes, kind)
  /\ abandoned' = IF kind = "timeout" THEN abandoned + 1 ELSE abandoned
  /\ waits' = Append(waits, BackoffWait(kind, attempt))
  /\ pc' = "backoff"
  /\ UNCHANGED outside
  /\ UNCHANGED <<disk, excelReportPath, files, summaries, startIndex,
                 processed, i, content, briefing, calls, attempt>>

\* Variant: every failure waits attempt x 10 s.
AttemptFailsAlwaysLongWait(kind) ==
  /\ pc = "race"
  /\ kind \in Outcomes(files[i + 1].key, attempt) \ {"ok"}
  /\ outcomes' = Append(outcomes, kind)
  /\ abandoned' = IF kind = "timeout" THEN abandoned + 1 ELSE abandoned
  /\ IF attempt < Retries
       THEN /\ waits' = Append(waits, attempt * RateLimitStep)
            /\ pc' = "backoff"
            /\ briefing' = briefing
       ELSE /\ waits' = waits
            /\ pc' = AfterGenerate(processed, files)
            /\ briefing' = ApiFailure
  /\ UNCHANGED outside
  /\ UNCHANGED <<disk, excelReportPath, files, summaries, startIndex,
                 processed, i, content, calls, attempt>>

\* Variant: the catch block waits after every failed attempt, the last one
\* included, before it returns the failure text.
AttemptFailsWaitsAfterLast(kind) ==
  /\ pc = "race"
  /\ kind \in Outcomes(files[i + 1].key, attempt) \ {"ok"}
  /\ outcomes' = Append(outcomes, kind)
  /\ abandoned' = IF kind = "timeout" THEN abandoned + 1 ELSE abandoned
  /\ waits' = Append(waits, BackoffWait(kind, attempt))
  /\ IF attempt < Retries
       THEN /\ pc' = "backoff"
            /\ briefing' = briefing
       ELSE /\ pc' = AfterGenerate(processed, files)
            /\ briefing' = ApiFailure
  /\ UNCHANGED outside
  /\ UNCHANGED <<disk, excelReportPath, files, summaries, startIndex,
                 processed, i, content, calls, attempt>>

\* Variant: the 3 s delay is taken only after a summary, not after the
\* failure text.
AttemptFailsNoPacing(kind) ==
  /\ pc = "race"
  /\ kind \in Outcomes(files[i + 1].key, attempt) \ {"ok"}
  /\ outcomes' = Append(outcomes, kind)
  /\ abandoned' = IF kind = "timeout" THEN abandoned + 1 ELSE abandoned
  /\ IF attempt < Retries
       THEN /\ waits' = Append(waits, BackoffWait(kind, attempt))
            /\ pc' = "backoff"
            /\ briefing' = briefing
       ELSE /\ waits' = waits
            /\ pc' = "push"
            /\ briefing' = ApiFailure
  /\ UNCHANGED outside
  /\ UNCHANGED <<disk, excelReportPath, files, summaries, startIndex,
                 processed, i, content, calls, attempt>>

\* The catch block: the attempt failed (the call rejected, the timer rejected
\* first, or reading the message threw).  Before the last attempt the function
\* waits and continues; after it, it returns the failure text.
AttemptFails(kind) ==
  /\ pc = "race"
  /\ kind \in Outcomes(files[i + 1].key, attempt) \ {"ok"}
  /\ outcomes' = Append(outcomes, kind)
  /\ abandoned' = IF kind = "timeout" THEN abandoned + 1 ELSE abandoned
  /\ IF attempt < Retries
       THEN /\ waits' = Append(waits, BackoffWait(kind, attempt))
            /\ pc' = "backoff"
            /\ briefing' = briefing
       ELSE /\ waits' = waits
            /\ pc' = AfterGenerate(processed, files)
            /\ briefing' = ApiFailure
  /\ UNCHANGED outside
  /\ UNCHANGED <<disk, excelReportPath, files, summaries, startIndex,
                 processed, i, content, calls, attempt>>

\* The wait has elapsed: continue with the next attempt.
Backoff ==
  /\ pc = "backoff"
  /\ pc' = "generate"
  /\ UNCHANGED outside
  /\ UNCHANGED <<disk, locals>>

\* An API call that lost the race to the timer settles (its result is dropped).
SettleLate ==
  /\ pc \in Running
  /\ abandoned > 0
  /\ abandoned' = abandoned - 1
  /\ UNCHANGED outside
  /\ UNCHANGED <<disk, pc, excelReportPath, files, summaries, startIndex,
                 processed, i, content, briefing, calls, attempt, outcomes, waits>>

\* the 3 s wait between requests
Delay ==
  /\ pc = "delay"
  /\ pc' = "push"
  /\ UNCHANGED outside
  /\ UNCHANGED <<disk, locals>>

\* Variant: the row of a file whose download gave no content is not pushed.
PushOnlySummarised ==
  /\ pc = "push"
  /\ summaries' = IF content.ok
                    THEN Append(summaries, SummaryRow(files[i + 1], briefing))
                    ELSE summaries
  /\ IF processed % SaveEvery = 0
       THEN /\ pc' = "save"
            /\ i' = i
       ELSE /\ pc' = LoopHead(i + 1, files)
            /\ i' = i + 1
  /\ attempt' = 0
  /\ outcomes' = <<>>
  /\ waits' = <<>>
  /\ UNCHANGED outside
  /\ UNCHANGED <<disk, excelReportPath, files, startIndex, processed,
                 content, briefing, calls, abandoned>>

\* Variant: the progress file is saved after every file.
PushSavesAlways ==
  /\ pc = "push"
  /\ summaries' = Append(summaries, SummaryRow(files[i + 1], briefing))
  /\ pc' = "save"
  /\ i' = i
  /\ attempt' = 0
  /\ outcomes' = <<>>
  /\ waits' = <<>>
  /\ UNCHANGED outside
  /\ UNCHANGED <<disk, excelReportPath, files, startIndex, processed,
                 content, briefing, calls, abandoned>>

\* summaries.push(...), then either the save of every 10th file or the next
\* iteration.
Push ==
  /\ pc = "push"
  /\ summaries' = Append(summaries, SummaryRow(files[i + 1], briefing))
  /\ IF processed % SaveEvery = 0
       THEN /\ pc' = "save"
            /\ i' = i
       ELSE /\ pc' = LoopHead(i + 1, files)
            /\ i' = i + 1
  /\ attempt' = 0
  /\ outcomes' = <<>>
  /\ waits' = <<>>
  /\ UNCHANGED outside
  /\ UNCHANGED <<disk, excelReportPath, files, startIndex, processed,
                 content, briefing, calls, abandoned>>

\* Variant: only the rows of the last chunk are written.
SaveProgressLastChunk ==
  /\ pc = "save"
  /\ progressFile' = Snapshot(excelReportPath,
          SubSeq(summaries, Len(summaries) - SaveEvery + 1, Len(summaries)),
          processed)
  /\ lastSaved' = progressFile'
  /\ i' = i + 1
  /\ pc' = LoopHead(i + 1, files)
  /\ UNCHANGED outside
  /\ UNCHANGED <<catalog, output, excelReportPath, files, summaries,
                 startIndex, processed, content, briefing, calls, client>>

\* fs.writeFileSync(progressFile, ...) returns normally.
SaveProgress ==
  /\ pc = "save"
  /\ progressFile' = Snapshot(excelReportPath, summaries, processed)
  /\ lastSaved' = Snapshot(excelReportPath, summaries, processed)
  /\ i' = i + 1
  /\ pc' = LoopHead(i + 1, files)
  /\ UNCHANGED outside
  /\ UNCHANGED <<catalog, output, excelReportPath, files, summaries,
                 startIndex, processed, content, briefing, calls, client>>

\* Variant: the exception of fs.writeFileSync is not caught.
SaveProgressFailsAborts ==
  /\ pc = "save"
  /\ progressFile' \in {progressFile, Corrupt}
  /\ pc' = "failed"
  /\ ClearLocals
  /\ UNCHANGED outside
  /\ UNCHANGED <<catalog, output, lastSaved, excelReportPath>>

\* fs.writeFileSync throws (caught and logged): the file was not opened, or
\* it was truncated and not written completely.
SaveProgressFails ==
  /\ pc = "save"
  /\ progressFile' \in {progressFile, Corrupt}
  /\ i' = i + 1
  /\ pc' = LoopHead(i + 1, files)
  /\ UNCHANGED outside
  /\ UNCHANGED <<catalog, output, lastSaved, excelReportPath, files, summaries,
                 startIndex, processed, content, briefing, calls, client>>

\* XLSX.writeFile(wb, outputPath) returns.
WriteWorkbook ==
  /\ pc = "write"
  /\ output' = [output EXCEPT ![excelReportPath] = Workbook(summaries)]
  /\ pc' = "cleanup"
  /\ UNCHANGED outside
  /\ UNCHANGED <<catalog, progressFile, lastSaved, locals>>

\* Variant: the progress file is removed although the workbook write threw.
WriteWorkbookFailsAndCleans ==
  /\ pc = "write"
  /\ output' \in {output, [output EXCEPT ![excelReportPath] = Corrupt]}
  /\ progressFile' = Absent
  /\ lastSaved' = Absent
  /\ pc' = "failed"
  /\ ClearLocals
  /\ UNCHANGED outside
  /\ UNCHANGED <<catalog, excelReportPath>>

\* XLSX.writeFile throws: the exception leaves generateFileSummaries.
WriteWorkbookFails ==
  /\ pc = "write"
  /\ output' \in {output, [output EXCEPT ![excelReportPath] = Corrupt]}
  /\ pc' = "failed"
  /\ ClearLocals
  /\ UNCHANGED outside
  /\ UNCHANGED <<catalog, progressFile, lastSaved, excelReportPath>>

\* "Clean up progress file": unlink if it exists.
Cleanup ==
  /\ pc = "cleanup"
  /\ progressFile' = Absent
  /\ lastSaved' = Absent
  /\ pc' = "done"
  /\ UNCHANGED outside
  /\ UNCHANGED <<catalog, output, locals>>

\* fs.unlinkSync throws (caught and logged).
CleanupFails ==
  /\ pc = "cleanup"
  /\ progressFile # Absent
  /\ pc' = "done"
  /\ UNCHANGED outside
  /\ UNCHANGED <<disk, locals>>

(* ------------------------------------------------------------------ *)
(* The process is killed (kill -9, power loss)                         *)
(* ------------------------------------------------------------------ *)

Kill ==
  /\ pc \in Running
  /\ pc' = "killed"
  /\ ClearLocals
  /\ UNCHANGED outside
  /\ UNCHANGED <<disk, excelReportPath>>

\* Killed inside fs.writeFileSync(progressFile, ...): the file has been
\* opened with truncation and holds a part of the new document.
KillDuringSave ==
  /\ pc = "save"
  /\ progressFile' = Corrupt
  /\ pc' = "killed"
  /\ ClearLocals
  /\ UNCHANGED outside
  /\ UNCHANGED <<catalog, output, lastSaved, excelReportPath>>

\* Killed inside XLSX.writeFile.
KillDuringWrite ==
  /\ pc = "write"
  /\ output' = [output EXCEPT ![excelReportPath] = Corrupt]
  /\ pc' = "killed"
  /\ ClearLocals
  /\ UNCHANGED outside
  /\ UNCHANGED <<catalog, progressFile, lastSaved, excelReportPath>>

Next ==
  \/ \E p \in Paths : Start(p)
  \/ LoadProgress
  \/ Fetch
  \/ Generate
  \/ AttemptSucceeds
  \/ \E kind \in Failures : AttemptFails(kind)
  \/ Backoff
  \/ SettleLate
  \/ Delay
  \/ Push
  \/ SaveProgress
  \/ SaveProgressFails
  \/ WriteWorkbook
  \/ WriteWorkbookFails
  \/ Cleanup
  \/ CleanupFails
  \/ Kill
  \/ KillDuringSave
  \/ KillDuringWrite

Spec == Init /\ [][Next]_vars

(* ------------------------------------------------------------------ *)
(* The programs that start a run: generate_file_summaries.js run       *)
(* standalone, resume_summaries.js (status, resume, clean) and         *)
(* s3_daily_summary.js                                                 *)
(* ------------------------------------------------------------------ *)

Commands == {"standalone", "resume", "daily", "status", "clean"}

InitCli ==
  /\ catalog = [p \in Paths |-> RowsOf(p, IF p = "B" THEN SaveEvery + 1 ELSE 1)]
  /\ Quiet
  /\ entry = "none"
  /\ apiKey \in BOOLEAN
  /\ reportState = [p \in Paths |-> "ok"]
  /\ NoDownload
  /\ NoOthers

\* A new process is started as cmd; its modules are loaded.
Invoke(cmd) ==
  /\ pc \in Stopped
  /\ pc' = "main"
  /\ entry' = cmd
  /\ excelReportPath' = NoPath
  /\ ClearLocals
  /\ UNCHANGED <<disk, environment, download, others>>

\* Between two processes the file at the path of a report is removed,
\* replaced or written again.
ChangeReport(p, st) ==
  /\ pc \in Stopped
  /\ reportState[p] # st
  /\ reportState' = [reportState EXCEPT ![p] = st]
  /\ UNCHANGED <<run, entry, apiKey, download, others>>

\* '\u2588'.repeat(Math.floor(processed/total*40)) and ' '.repeat(40 - ...)
\* throw a RangeError on a count that is infinite or negative.
BarThrows(done, total) == (total = 0 /\ done > 0) \/ done > total

NoProgress == [tag |-> "null"]

\* checkProgress(): null when the file does not exist and when anything in
\* the try throws: JSON.parse, XLSX.readFile, the progress bar.
checkProgress(pf) ==
  IF ~IsSnapshot(pf) THEN NoProgress
  ELSE IF reportState[pf.excelPath] = "missing" THEN pf
  ELSE IF reportState[pf.excelPath] = "unreadable" THEN NoProgress
  ELSE IF BarThrows(Len(pf.summaries), Len(ReadReport(pf.excelPath)))
         THEN NoProgress
         ELSE pf

\* Variant: status removes a progress file it cannot parse.
StatusCmdDropsCorrupt ==
  /\ pc = "main"
  /\ entry = "status"
  /\ progressFile' = IF progressFile = Corrupt THEN Absent ELSE progressFile
  /\ pc' = "exit0"
  /\ UNCHANGED <<catalog, output, lastSaved, locals, entry, environment, others,
                 download>>

\* status: checkProgress() and the end of the script.
StatusCmd ==
  /\ pc = "main"
  /\ entry = "status"
  /\ pc' = "exit0"
  /\ UNCHANGED <<disk, locals, entry, environment, others, download>>

\* clean: nothing to do, or unlinkSync succeeds.
CleanCmd ==
  /\ pc = "main"
  /\ entry = "clean"
  /\ progressFile' = Absent
  /\ lastSaved' = Absent
  /\ pc' = "exit0"
  /\ UNCHANGED <<catalog, output, locals, entry, environment, others, download>>

\* clean: unlinkSync throws; the error is logged.
CleanFails ==
  /\ pc = "main"
  /\ entry = "clean"
  /\ progressFile # Absent
  /\ pc' = "exit0"
  /\ UNCHANGED <<disk, locals, entry, environment, others, download>>

\* resume goes on to generateFileSummaries when checkProgress returned the
\* progress and the report it names exists.
CanResume ==
  /\ checkProgress(progressFile) # NoProgress
  /\ reportState[progressFile.excelPath] # "missing"

\* resume: "Cannot resume" is logged and resumeSummaries returns.
ResumeRefused ==
  /\ pc = "main"
  /\ entry = "resume"
  /\ ~CanResume
  /\ pc' = "exit0"
  /\ UNCHANGED <<disk, locals, entry, environment, others, download>>

\* resume: require('./generate_file_summaries') throws when the client
\* library refuses to be constructed without a key; the catch exits with 1.
ResumeLoadThrows ==
  /\ pc = "main"
  /\ entry = "resume"
  /\ CanResume
  /\ ~apiKey
  /\ pc' = "exit1"
  /\ UNCHANGED <<disk, locals, entry, environment, others, download>>

\* resume: generateFileSummaries(progress.excelPath, reportsDir)
ResumeRun ==
  /\ pc = "main"
  /\ entry = "resume"
  /\ CanResume
  /\ Begin(progressFile.excelPath)

\* The reports in the directory, and files.sort().reverse()[0].
Present == {p \in Paths : reportState[p] # "missing"}
LatestReport == IF "B" \in Present THEN "B" ELSE "A"

\* standalone: CLAUDE_API_KEY is not set.
StandaloneNoKey ==
  /\ pc = "main"
  /\ entry = "standalone"
  /\ ~apiKey
  /\ pc' = "exit1"
  /\ UNCHANGED <<disk, locals, entry, environment, others, download>>

\* standalone: "No daily upload reports found"
StandaloneNoReport ==
  /\ pc = "main"
  /\ entry = "standalone"
  /\ apiKey
  /\ Present = {}
  /\ pc' = "exit1"
  /\ UNCHANGED <<disk, locals, entry, environment, others, download>>

\* standalone: generateFileSummaries(latestReport, reportsDir)
StandaloneRun ==
  /\ pc = "main"
  /\ entry = "standalone"
  /\ apiKey
  /\ Present # {}
  /\ Begin(LatestReport)

\* daily: the require throws without a key; the catch logs "Continuing
\* without file summaries attachment" and the script goes on to the mail.
DailyLoadThrows ==
  /\ pc = "main"
  /\ entry = "daily"
  /\ ~apiKey
  /\ pc' = "exit0"
  /\ UNCHANGED <<disk, locals, entry, environment, others, download>>

\* daily: generateFileSummaries(attachmentPath, reportsDir) on the report
\* the script has just written.
DailyRun(p) ==
  /\ pc = "main"
  /\ entry = "daily"
  /\ reportState[p] = "ok"
  /\ Begin(p)

\* The states in which the process has ended by itself, and its exit code:
\* an exception out of generateFileSummaries exits with 1 in standalone and
\* resume and is caught and logged in the daily script.
Exited == {"exit0", "exit1", "nofiles", "done", "failed", "signalled"}
ExitCode ==
  IF pc = "exit1" \/ (pc = "failed" /\ entry \in {"standalone", "resume"})
    THEN 1
    ELSE 0

\* Where generateFileSummaries waits on a promise (the download, the race,
\* a backoff wait, the 3 s delay) and the event loop can run a handler;
\* everything from the push of a row to the next download, the saves and
\* the writes included, is synchronous.
Awaiting == {"fetch", "race", "backoff", "delay"}

\* Variant: the handler runs wherever the process is and cuts a write of
\* the progress file short.
SignalAnywhere ==
  /\ pc \in Running
  /\ progressFile' = IF pc = "save" THEN Corrupt ELSE progressFile
  /\ pc' = "signalled"
  /\ ClearLocals
  /\ UNCHANGED outside
  /\ UNCHANGED <<catalog, output, lastSaved, excelReportPath>>

\* SIGINT or SIGTERM: the handler logs and calls process.exit(0). It runs
\* from the event loop, so only while the process waits.
Signal ==
  /\ pc \in Awaiting
  /\ pc' = "signalled"
  /\ ClearLocals
  /\ UNCHANGED outside
  /\ UNCHANGED <<disk, excelReportPath>>

\* The steps of generateFileSummaries once it has been called.
RunSteps ==
  \/ LoadProgress
  \/ Fetch
  \/ Generate
  \/ AttemptSucceeds
  \/ \E kind \in Failures : AttemptFails(kind)
  \/ Backoff
  \/ SettleLate
  \/ Delay
  \/ Push
  \/ SaveProgress
  \/ SaveProgressFails
  \/ WriteWorkbook
  \/ WriteWorkbookFails
  \/ Cleanup
  \/ CleanupFails
  \/ Kill
  \/ KillDuringSave
  \/ KillDuringWrite

NextCli ==
  \/ \E cmd \in Commands : Invoke(cmd)
  \/ \E p \in Paths : \E st \in ReportStates : ChangeReport(p, st)
  \/ StatusCmd
  \/ CleanCmd
  \/ CleanFails
  \/ ResumeRefused
  \/ ResumeLoadThrows
  \/ ResumeRun
  \/ StandaloneNoKey
  \/ StandaloneNoReport
  \/ StandaloneRun
  \/ DailyLoadThrows
  \/ \E p \in Paths : DailyRun(p)
  \/ RunSteps
  \/ Signal

SpecCli == InitCli /\ [][NextCli]_vars

(* ------------------------------------------------------------------ *)
(* The report is written again between two runs (buildWorkbook)        *)
(* ------------------------------------------------------------------ *)

\* The numbers of rows a rewritten report can have: fewer than one
\* checkpoint holds, or more.
ChangedLens == {SaveEvery - 1, SaveEvery + 1}

InitChange ==
  /\ catalog = [p \in Paths |-> RowsOf(p, IF p = "B" THEN SaveEvery + 1 ELSE 1)]
  /\ Quiet
  /\ entry = "none"
  /\ apiKey = TRUE
  /\ reportState = [p \in Paths |-> "ok"]
  /\ NoDownload
  /\ NoOthers

\* buildWorkbook writes s3_daily_uploads_<date>.xlsx again, under the same
\* name, with the uploads found by the new scan.
RewriteReport(p, l) ==
  /\ pc \in Stopped
  /\ Len(catalog[p]) # l
  /\ catalog' = [catalog EXCEPT ![p] = RowsOf(p, l)]
  /\ UNCHANGED <<progressFile, output, lastSaved, pc, locals, outside>>

NextChange ==
  \/ Next
  \/ \E p \in Paths : \E l \in ChangedLens : RewriteReport(p, l)

SpecChange == InitChange /\ [][NextChange]_vars

(* ------------------------------------------------------------------ *)
(* downloadFileContent, chunk by chunk, and the branch on its result   *)
(* ------------------------------------------------------------------ *)

\* maxSize = 500000: the ceiling on the bytes read from the body
maxSize == 500000

\* content.slice(0, 50000)
SliceLen == 50000

\* Longest body, in chunks.
MaxChunks == 3

\* The sizes a chunk can have and, for a size, the numbers of non-printable
\* characters in it: none, 30% rounded down, one more. Characters are taken
\* to be of one byte, so that chunk.length and content.length agree.
ChunkLens == {0, 10, maxSize \div 2, maxSize + 1}
NonPrintables(l) == {n \in {0, (3 * l) \div 10, (3 * l) \div 10 + 1} : n <= l}
Chunks == UNION {{[len |-> l, np |-> n] : n \in NonPrintables(l)} : l \in ChunkLens}
Objects == UNION {[1..k -> Chunks] : k \in 0..MaxChunks}

RECURSIVE SumLen(_)
SumLen(cs) == IF cs = <<>> THEN 0 ELSE Head(cs).len + SumLen(Tail(cs))

RECURSIVE SumNP(_)
SumNP(cs) == IF cs = <<>> THEN 0 ELSE Head(cs).np + SumNP(Tail(cs))

\* nonPrintable > content.length * 0.3
IsBinary(L, P) == 10 * P > 3 * L

Min(a, b) == IF a <= b THEN a ELSE b

InitDownload ==
  /\ catalog = [p \in Paths |-> RowsOf(p, 0)]
  /\ Quiet
  /\ entry = "none"
  /\ apiKey = TRUE
  /\ reportState = [p \in Paths |-> "ok"]
  /\ object \in Objects
  /\ Body = object
  /\ chunks = <<>>
  /\ totalSize = 0
  /\ threw = FALSE
  /\ fetched = Null
  /\ dpc = "read"
  /\ NoOthers

\* One iteration of for await (const chunk of response.Body): the chunk that
\* takes totalSize over maxSize is not pushed and ends the loop.
ReadChunk ==
  /\ dpc = "read"
  /\ Body # <<>>
  /\ totalSize' = totalSize + Head(Body).len
  /\ Body' = Tail(Body)
  /\ IF totalSize + Head(Body).len > maxSize
       THEN /\ chunks' = chunks
            /\ dpc' = "decode"
       ELSE /\ chunks' = Append(chunks, Head(Body))
            /\ dpc' = "read"
  /\ UNCHANGED <<run, entry, environment, others, object, threw, fetched>>

\* The body has no more chunks.
EndOfBody ==
  /\ dpc = "read"
  /\ Body = <<>>
  /\ dpc' = "decode"
  /\ UNCHANGED <<run, entry, environment, others, object, Body, chunks, totalSize,
                 threw, fetched>>

\* s3.send or the stream throws: the catch logs and returns null.
BodyThrows ==
  /\ dpc = "read"
  /\ threw' = TRUE
  /\ fetched' = Null
  /\ dpc' = "returned"
  /\ UNCHANGED <<run, entry, environment, others, object, Body, chunks, totalSize>>

\* Buffer.concat, toString, the count of non-printable characters and the
\* return of null or of the first 50000 characters.
Classify ==
  /\ dpc = "decode"
  /\ fetched' = IF IsBinary(SumLen(chunks), SumNP(chunks))
                  THEN Null
                  ELSE String(Min(SumLen(chunks), SliceLen))
  /\ dpc' = "returned"
  /\ UNCHANGED <<run, entry, environment, others, object, Body, chunks, totalSize,
                 threw>>

\* if (!content) in generateFileSummaries: null and the empty string are
\* both falsy.
BranchOnContent ==
  /\ dpc = "returned"
  /\ dpc' = IF fetched.null \/ fetched.len = 0 THEN "skipped" ELSE "generate"
  /\ UNCHANGED <<run, entry, environment, others, object, Body, chunks, totalSize,
                 threw, fetched>>

NextDownload ==
  \/ ReadChunk
  \/ EndOfBody
  \/ BodyThrows
  \/ Classify
  \/ BranchOnContent

SpecDownload == InitDownload /\ [][NextDownload]_vars

(* ------------------------------------------------------------------ *)
(* generateSummaryWithClaude, promise by promise                       *)
(* ------------------------------------------------------------------ *)

\* How apiPromise can settle: fulfilled with a message whose content[0].text
\* exists, fulfilled with a message without it, rejected with status 429,
\* rejected with another error.
Settlements == {"fulfilled", "unusable", "429", "rejected"}

notRace == <<run, entry, environment, download, batch, pipeline>>

InitRace ==
  /\ catalog = [p \in Paths |-> RowsOf(p, 0)]
  /\ Quiet
  /\ entry = "none"
  /\ apiKey = TRUE
  /\ reportState = [p \in Paths |-> "ok"]
  /\ NoDownload
  /\ NoJobs
  /\ apiPromise = <<>>
  /\ timeoutPromise = <<>>
  /\ raceWinner = <<>>
  /\ rAttempt = 1
  /\ rResult = NoBriefing
  /\ rpc = "loop"
  /\ unhandled = 0

\* One turn of the for loop up to the await: the timer is armed, the call
\* issued, and Promise.race subscribes to both promises.
IssueAttempt ==
  /\ rpc = "loop"
  /\ rAttempt <= Retries
  /\ timeoutPromise' = Append(timeoutPromise, "armed")
  /\ apiPromise' = Append(apiPromise, "pending")
  /\ raceWinner' = Append(raceWinner, "none")
  /\ rpc' = "race"
  /\ UNCHANGED <<rAttempt, rResult, unhandled>>
  /\ UNCHANGED notRace

\* The catch block: wait and continue before the last attempt, return the
\* failure text after it.
CatchAttempt ==
  IF rAttempt < Retries
    THEN rpc' = "wait" /\ rResult' = rResult
    ELSE rpc' = "returned" /\ rResult' = ApiFailure

\* apiPromise settles while the race is undecided: the race settles with it.
ApiSettlesFirst(res) ==
  /\ rpc = "race"
  /\ apiPromise[rAttempt] = "pending"
  /\ apiPromise' = [apiPromise EXCEPT ![rAttempt] = res]
  /\ raceWinner' = [raceWinner EXCEPT ![rAttempt] = "api"]
  /\ IF res = "fulfilled"
       THEN rpc' = "returned" /\ rResult' = [text |-> "summary", of |-> <<>>]
       ELSE CatchAttempt
  /\ UNCHANGED <<timeoutPromise, rAttempt, unhandled>>
  /\ UNCHANGED notRace

\* The 60 s timer fires while the race is undecided: the race rejects.
TimerFiresFirst ==
  /\ rpc = "race"
  /\ timeoutPromise[rAttempt] = "armed"
  /\ timeoutPromise' = [timeoutPromise EXCEPT ![rAttempt] = "rejected"]
  /\ raceWinner' = [raceWinner EXCEPT ![rAttempt] = "timer"]
  /\ CatchAttempt
  /\ UNCHANGED <<apiPromise, rAttempt, unhandled>>
  /\ UNCHANGED notRace

\* The wait of the catch block is over: continue with the next attempt.
NextAttempt ==
  /\ rpc = "wait"
  /\ rAttempt' = rAttempt + 1
  /\ rpc' = "loop"
  /\ UNCHANGED <<apiPromise, timeoutPromise, raceWinner, rResult, unhandled>>
  /\ UNCHANGED notRace

\* Promise.race([apiPromise, timeoutPromise]) has attached its reactions to
\* the promises of attempt k.
Subscribed(k) == k <= Len(raceWinner)

\* Variant: nothing is subscribed to the call that lost the race; its
\* rejection raises 'unhandledRejection'.
ApiSettlesLateUnawaited(k, res) ==
  /\ k \in 1..Len(apiPromise)
  /\ raceWinner[k] # "none"
  /\ apiPromise[k] = "pending"
  /\ apiPromise' = [apiPromise EXCEPT ![k] = res]
  /\ unhandled' = IF res \in {"429", "rejected"} THEN unhandled + 1 ELSE unhandled
  /\ UNCHANGED <<timeoutPromise, raceWinner, rAttempt, rResult, rpc>>
  /\ UNCHANGED notRace

\* The call that lost the race to the timer settles afterwards.
ApiSettlesLate(k, res) ==
  /\ k \in 1..Len(apiPromise)
  /\ raceWinner[k] # "none"
  /\ apiPromise[k] = "pending"
  /\ apiPromise' = [apiPromise EXCEPT ![k] = res]
  /\ unhandled' = IF res \in {"429", "rejected"} /\ ~Subscribed(k)
                    THEN unhandled + 1 ELSE unhandled
  /\ UNCHANGED <<timeoutPromise, raceWinner, rAttempt, rResult, rpc>>
  /\ UNCHANGED notRace

\* The timer of an attempt that is already decided fires: it is never
\* cleared.
TimerFiresLate(k) ==
  /\ k \in 1..Len(timeoutPromise)
  /\ raceWinner[k] # "none"
  /\ timeoutPromise[k] = "armed"
  /\ timeoutPromise' = [timeoutPromise EXCEPT ![k] = "rejected"]
  /\ unhandled' = IF Subscribed(k) THEN unhandled ELSE unhandled + 1
  /\ UNCHANGED <<apiPromise, raceWinner, rAttempt, rResult, rpc>>
  /\ UNCHANGED notRace

NextRace ==
  \/ IssueAttempt
  \/ \E res \in Settlements : ApiSettlesFirst(res)
  \/ TimerFiresFirst
  \/ NextAttempt
  \/ \E k \in 1..Retries : \E res \in Settlements : ApiSettlesLate(k, res)
  \/ \E k \in 1..Retries : TimerFiresLate(k)

SpecRace == InitRace /\ [][NextRace]_vars

(* ------------------------------------------------------------------ *)
(* Runs that are never killed, under fair scheduling                   *)
(* ------------------------------------------------------------------ *)

\* The next step of the running process: the continuation the event loop
\* runs once the awaited promise has settled (a download, the race of the call
\* against its timer, a wait) or the next synchronous statement.
RunStep ==
  \/ LoadProgress
  \/ Fetch
  \/ Generate
  \/ AttemptSucceeds
  \/ \E kind \in Failures : AttemptFails(kind)
  \/ Backoff
  \/ Delay
  \/ Push
  \/ SaveProgress
  \/ SaveProgressFails
  \/ WriteWorkbook
  \/ Cleanup
  \/ CleanupFails

NextLive ==
  \/ \E p \in Paths : Start(p)
  \/ SettleLate
  \/ RunStep

\* Every download settles, every race settles (by the call or by its 60 s
\* timer), every wait elapses, and the event loop then runs the continuation.
SpecLive == InitChange /\ [][NextLive]_vars /\ WF_vars(RunStep)

(* ------------------------------------------------------------------ *)
(* Reference: the run that is never interrupted                        *)
(* ------------------------------------------------------------------ *)

\* The briefing one iteration of the loop body produces for a file.
ItemBriefing(file) ==
  IF downloadFileContent(file).ok
    THEN generateSummaryWithClaude(file, downloadFileContent(file))
    ELSE BinaryBriefing

\* summaries at the end of the loop when it starts at index 0 with no rows.
UninterruptedRun(fs) ==
  [n \in 1..Len(fs) |-> SummaryRow(fs[n], ItemBriefing(fs[n]))]

IsPrefix(s, t) == Len(s) <= Len(t) /\ SubSeq(t, 1, Len(s)) = s

(* ------------------------------------------------------------------ *)
(* The batch orchestrator (unnamed/part_000): main and processBatch    *)
(* ------------------------------------------------------------------ *)

BATCH_SIZE == 25

\* The patterns of SKIP_DIRECTORIES.
SKIP_DIRECTORIES == {"commercial-case-laws", "usecase-reports-2",
                     "usecase-reports-3", "usecase-reports-4",
                     "usecase-reports-5", "usecase-reports"}

\* The patterns the lower-cased name of a directory contains.
DirPatterns(name) ==
  CASE name = "usecase-reports"            -> {"usecase-reports"}
    [] name = "Commercial-Case-Laws/2024"  -> {"commercial-case-laws"}
    [] OTHER                               -> {}

shouldSkipDirectory(directory) ==
  DirPatterns(directory[2]) \cap SKIP_DIRECTORIES # {}

\* The rows of the reports the orchestrator runs over: most keys lie in an
\* ordinary directory, some in an excluded one.
BatchRowsOf(p, len) ==
  [n \in 1..len |->
     [FileEntry(p, n) EXCEPT !.directory =
        <<p, CASE n % 7 = 3 -> "usecase-reports"
               [] n % 7 = 5 -> "Commercial-Case-Laws/2024"
               [] OTHER     -> "dir">>]]

\* The briefing the body of the loop of processBatch produces for a file.
BatchBriefing(file) ==
  IF shouldSkipDirectory(file.directory)
    THEN [text |-> "Skipped (excluded directory)", of |-> <<>>]
    ELSE IF ~downloadFileContent(file).ok
      THEN BinaryBriefing
      ELSE IF ClaudeOutcome(file.key[2]) = "ok"
        THEN [text |-> "summary", of |-> file.key]
        ELSE [text |-> "Error generating question (API failure after retries)",
              of |-> <<>>]

\* One row per file, in the order of the report.
BatchReference(fs) ==
  [n \in 1..Len(fs) |-> SummaryRow(fs[n], BatchBriefing(fs[n]))]

endIndex(start, fs) == Min(start + BATCH_SIZE, Len(fs))

BatchRunning == {"bload", "bitem", "bsave", "bfinal", "bwrite", "bcleanup"}

\* What no step of the orchestrator changes.
notBatch == <<entry, environment, download, race, pipeline, processed,
              content, briefing, calls, client>>

InitBatch ==
  /\ catalog = [p \in Paths |->
                  BatchRowsOf(p, IF p = "B" THEN BATCH_SIZE + 1
                                            ELSE SaveEvery + 1)]
  /\ Quiet
  /\ entry = "none"
  /\ apiKey = TRUE
  /\ reportState = [p \in Paths |-> IF p = "A" THEN "ok" ELSE "missing"]
  /\ NoDownload
  /\ NoOthers

\* main up to the loop over the batches.  Runs are followed up to the first
\* workbook, and started on progress files of at most BATCH_SIZE + 1 rows.
BatchMain ==
  /\ pc \in Stopped
  /\ \A p \in Paths : output[p] = Absent
  /\ IsSnapshot(progressFile) => Len(progressFile.summaries) <= BATCH_SIZE + 1
  /\ summaries' = <<>>
  /\ startIndex' = 0
  /\ i' = 0
  /\ batchNum' = 0
  /\ allSummaries' = <<>>
  /\ freshStart' = (progressFile = Absent)
  /\ saveFailed' = FALSE
  /\ IF Present = {}
       THEN /\ pc' = "exit1"
            /\ excelReportPath' = NoPath
            /\ files' = <<>>
       ELSE /\ excelReportPath' = LatestReport
            /\ files' = ReadReport(LatestReport)
            /\ pc' = IF Len(ReadReport(LatestReport)) = 0
                       THEN "nofiles" ELSE "bload"
  /\ UNCHANGED disk
  /\ UNCHANGED notBatch

\* "Load existing progress if available": whatever parses is taken.
BatchSeed(pf, p) ==
  IF IsSnapshot(pf) THEN pf.summaries ELSE <<>>

\* processBatch(files, startIndex, endIndex, progressFile, latestReport) up to
\* its loop.
BatchLoad ==
  /\ pc = "bload"
  /\ summaries' = BatchSeed(progressFile, excelReportPath)
  /\ startIndex' = batchNum * BATCH_SIZE
  /\ i' = batchNum * BATCH_SIZE
  /\ pc' = "bitem"
  /\ UNCHANGED <<disk, excelReportPath, files, batch>>
  /\ UNCHANGED notBatch

AfterItem(j, start, fs) ==
  IF j < endIndex(start, fs) THEN "bitem" ELSE "bfinal"

\* One turn of the loop of processBatch up to the periodic save.
BatchItem ==
  /\ pc = "bitem"
  /\ summaries' = Append(summaries,
                         SummaryRow(files[i + 1], BatchBriefing(files[i + 1])))
  /\ IF (i + 1) % SaveEvery = 0
       THEN /\ pc' = "bsave"
            /\ i' = i
       ELSE /\ pc' = AfterItem(i + 1, startIndex, files)
            /\ i' = i + 1
  /\ UNCHANGED <<disk, excelReportPath, files, startIndex, batch>>
  /\ UNCHANGED notBatch

\* "Save progress every 10 files"
BatchSave ==
  /\ pc = "bsave"
  /\ progressFile' = Snapshot(excelReportPath, summaries, i + 1)
  /\ i' = i + 1
  /\ pc' = AfterItem(i + 1, startIndex, files)
  /\ UNCHANGED <<catalog, output, lastSaved, excelReportPath, files, summaries,
                 startIndex, batch>>
  /\ UNCHANGED notBatch

\* fs.writeFileSync throws in the periodic save (caught and logged).
BatchSaveFails ==
  /\ pc = "bsave"
  /\ progressFile' \in {progressFile, Corrupt}
  /\ saveFailed' = TRUE
  /\ i' = i + 1
  /\ pc' = AfterItem(i + 1, startIndex, files)
  /\ UNCHANGED <<catalog, output, lastSaved, excelReportPath, files,
                 summaries, startIndex, batchNum, allSummaries, freshStart>>
  /\ UNCHANGED notBatch

\* processBatch returns summaries; main assigns them to allSummaries and goes
\* on to the next batch or to the workbook.
BatchReturn ==
  /\ allSummaries' = summaries
  /\ batchNum' = batchNum + 1
  /\ pc' = IF batchNum + 1 < (Len(files) + BATCH_SIZE - 1) \div BATCH_SIZE
             THEN "bload" ELSE "bwrite"
  /\ UNCHANGED <<catalog, output, excelReportPath, files, summaries,
                 startIndex, i, freshStart>>
  /\ UNCHANGED notBatch

\* "Save final progress", then the return.
BatchFinalSave ==
  /\ pc = "bfinal"
  /\ progressFile' = Snapshot(excelReportPath, summaries,
                              endIndex(startIndex, files))
  /\ lastSaved' = lastSaved
  /\ saveFailed' = saveFailed
  /\ BatchReturn

\* fs.writeFileSync throws in the final save (caught and logged), then the
\* return.
BatchFinalSaveFails ==
  /\ pc = "bfinal"
  /\ progressFile' \in {progressFile, Corrupt}
  /\ lastSaved' = lastSaved
  /\ saveFailed' = TRUE
  /\ BatchReturn

\* XLSX.writeFile(wb, summaryPath) of allSummaries.
BatchWrite ==
  /\ pc = "bwrite"
  /\ output' = [output EXCEPT ![excelReportPath] = Workbook(allSummaries)]
  /\ pc' = "bcleanup"
  /\ UNCHANGED <<catalog, progressFile, lastSaved, excelReportPath, files,
                 summaries, startIndex, i, batch>>
  /\ UNCHANGED notBatch

\* "Clean up progress file"; the mail is sent after it.
BatchCleanup ==
  /\ pc = "bcleanup"
  /\ progressFile' = Absent
  /\ pc' = "done"
  /\ UNCHANGED <<catalog, output, lastSaved, excelReportPath, files, summaries,
                 startIndex, i, batch>>
  /\ UNCHANGED notBatch

\* fs.unlinkSync throws (caught and logged).
BatchCleanupFails ==
  /\ pc = "bcleanup"
  /\ progressFile # Absent
  /\ pc' = "done"
  /\ UNCHANGED <<disk, excelReportPath, files, summaries, startIndex, i,
                 batch>>
  /\ UNCHANGED notBatch

\* The process is killed; inside fs.writeFileSync the file may be left
\* truncated.
BatchKill ==
  /\ pc \in BatchRunning
  /\ progressFile' \in IF pc \in {"bsave", "bfinal"}
                         THEN {progressFile, Corrupt} ELSE {progressFile}
  /\ pc' = "killed"
  /\ files' = <<>>
  /\ summaries' = <<>>
  /\ startIndex' = 0
  /\ i' = 0
  /\ batchNum' = 0
  /\ allSummaries' = <<>>
  /\ UNCHANGED <<catalog, output, lastSaved, excelReportPath, freshStart,
                 saveFailed>>
  /\ UNCHANGED notBatch

\* Between two runs the scan of the next day writes its report: ChangeReport.
NextBatch ==
  \/ \E p \in Paths : ChangeReport(p, "ok")
  \/ BatchMain
  \/ BatchLoad
  \/ BatchItem
  \/ BatchSave
  \/ BatchSaveFails
  \/ BatchFinalSave
  \/ BatchFinalSaveFails
  \/ BatchWrite
  \/ BatchCleanup
  \/ BatchCleanupFails
  \/ BatchKill

SpecBatch == InitBatch /\ [][NextBatch]_vars

(* ------------------------------------------------------------------ *)
(* run_complete_pipeline.js: runCommand and main                       *)
(* ------------------------------------------------------------------ *)

\* The code of a 'close' event: a number, or null when the child was ended
\* by a signal.
Code(n) == [fired |-> TRUE, null |-> FALSE, n |-> n]

\* The codes a child that was spawned can close with: success, a failure of
\* the script, "command not found" of the shell, ended by a signal.
ExitCodes == {Code(0), Code(1), Code(127),
              [fired |-> TRUE, null |-> TRUE, n |-> 0]}

\* code === 0
IsZero(c) == c.fired /\ ~c.null /\ c.n = 0

notPipeline == <<run, entry, environment, download, race, batch>>

InitPipeline ==
  /\ catalog = [p \in Paths |-> RowsOf(p, 0)]
  /\ Quiet
  /\ entry = "none"
  /\ apiKey = TRUE
  /\ reportState = [p \in Paths |-> "ok"]
  /\ NoDownload
  /\ NoOthers

\* node run_complete_pipeline.js is started (by hand or by the scheduler)
\* when no pipeline is running; the console keeps the lines of earlier runs.
PipelineStart ==
  /\ ppc \in {"none", "finished", "exit1"}
  /\ Cardinality({n \in DOMAIN plog :
                    plog[n][1] = "COMPLETE PIPELINE STARTED"}) < MaxPipelineRuns
  /\ ppc' = "spawn"
  /\ started' = <<>>
  /\ closeCode' = [s \in Steps |-> NoClose]
  /\ errorFired' = [s \in Steps |-> FALSE]
  /\ promise' = [s \in Steps |-> "none"]
  /\ settleCalls' = [s \in Steps |-> 0]
  /\ plog' = Append(plog, <<"COMPLETE PIPELINE STARTED", 0>>)
  /\ UNCHANGED notPipeline

\* resolve() or reject(...) is called on the promise of step s: a promise that
\* is settled stays as it is.
Settle(s, how) ==
  /\ promise' = [promise EXCEPT
                   ![s] = IF promise[s] = "pending" THEN how ELSE promise[s]]
  /\ settleCalls' = [settleCalls EXCEPT ![s] = settleCalls[s] + 1]

\* runCommand: the executor of the promise spawns the child and registers
\* the two handlers.  The spawn succeeds or fails.
Spawn(ok) ==
  /\ ppc = "spawn"
  /\ started' = Append(started, [step |-> Len(started) + 1, spawned |-> ok])
  /\ promise' = [promise EXCEPT ![Len(started) + 1] = "pending"]
  /\ plog' = Append(plog, <<"Running", Len(started) + 1>>)
  /\ ppc' = "await"
  /\ UNCHANGED <<closeCode, errorFired, settleCalls>>
  /\ UNCHANGED notPipeline

\* proc.on('error'): the child could not be spawned.  A handler runs only
\* while the parent process is alive.
ErrorEvent(s) ==
  /\ ppc \in {"await", "pause"}
  /\ s \in 1..Len(started)
  /\ ~started[s].spawned
  /\ ~errorFired[s]
  /\ errorFired' = [errorFired EXCEPT ![s] = TRUE]
  /\ Settle(s, "rejected")
  /\ plog' = Append(plog, <<"Failed to start command", s>>)
  /\ UNCHANGED <<ppc, started, closeCode>>
  /\ UNCHANGED notPipeline

\* The codes the 'close' event of step s can carry now.  The 'close' event
\* that follows the 'error' event of a child that could not be spawned
\* carries the negative errno (here ENOENT).
CloseCodes(s) ==
  IF started[s].spawned THEN ExitCodes
  ELSE IF errorFired[s] THEN {Code(0 - 2)} ELSE {}

\* Variant: the handler of 'close' resolves whatever the code.
CloseEventIgnoresCode(s, code) ==
  /\ ppc \in {"await", "pause"}
  /\ s \in 1..Len(started)
  /\ closeCode[s] = NoClose
  /\ code \in CloseCodes(s)
  /\ closeCode' = [closeCode EXCEPT ![s] = code]
  /\ Settle(s, "resolved")
  /\ plog' = Append(plog, <<"Command completed successfully", s>>)
  /\ UNCHANGED <<ppc, started, errorFired>>
  /\ UNCHANGED notPipeline

\* proc.on('close'): resolve on code 0, reject otherwise.
CloseEvent(s, code) ==
  /\ ppc \in {"await", "pause"}
  /\ s \in 1..Len(started)
  /\ closeCode[s] = NoClose
  /\ code \in CloseCodes(s)
  /\ closeCode' = [closeCode EXCEPT ![s] = code]
  /\ IF IsZero(code)
       THEN /\ Settle(s, "resolved")
            /\ plog' = Append(plog, <<"Command completed successfully", s>>)
       ELSE /\ Settle(s, "rejected")
            /\ plog' = Append(plog, <<"Command failed with code", s>>)
  /\ UNCHANGED <<ppc, started, errorFired>>
  /\ UNCHANGED notPipeline

\* main continues after 'await runCommand(...)': with the next statement when
\* the promise is fulfilled, in the catch (process.exit(1)) when it is rejected.
MainResumes ==
  /\ ppc = "await"
  /\ promise[Len(started)] \in {"resolved", "rejected"}
  /\ IF promise[Len(started)] = "rejected"
       THEN /\ ppc' = "exit1"
            /\ plog' = Append(plog, <<"PIPELINE FAILED", Len(started)>>)
       ELSE IF Len(started) = 1
         THEN /\ ppc' = "pause"
              /\ plog' = Append(plog, <<"Step 1 complete", 1>>)
         ELSE /\ ppc' = "finished"
              /\ plog' = Append(plog, <<"COMPLETE PIPELINE FINISHED", 2>>)
  /\ UNCHANGED <<started, closeCode, errorFired, promise, settleCalls>>
  /\ UNCHANGED notPipeline

\* The 5 s wait between the steps is over.
PauseOver ==
  /\ ppc = "pause"
  /\ ppc' = "spawn"
  /\ UNCHANGED <<started, closeCode, errorFired, promise, settleCalls, plog>>
  /\ UNCHANGED notPipeline

NextPipeline ==
  \/ PipelineStart
  \/ \E ok \in BOOLEAN : Spawn(ok)
  \/ \E s \in Steps : ErrorEvent(s)
  \/ \E s \in Steps : \E code \in ExitCodes \cup {Code(0 - 2)} :
       CloseEvent(s, code)
  \/ MainResumes
  \/ PauseOver

SpecPipeline == InitPipeline /\ [][NextPipeline]_vars

(* ------------------------------------------------------------------ *)
(* Properties                                                          *)
(* ------------------------------------------------------------------ *)

\* C1 (resume equivalence): a run that completes, after any kills and
\* restarts on the same report, has written a workbook equal row for row, in
\* the same order, to the rows of the uninterrupted run over all the files.
C1_ResumeEquivalence ==
  pc = "done" => output[excelReportPath] = Workbook(UninterruptedRun(files))

\* a run completed that had resumed in the middle of the report
C1_Witness ==
  /\ pc = "done"
  /\ 0 < startIndex
  /\ startIndex < Len(files)
  /\ output[excelReportPath] = Workbook(summaries)

\* C2 (no duplicate, no lost work): once the loop is over, summaries has exactly
\* one entry per file and entry n is the result of file n.
C2_NoDuplicateNoLostWork ==
  pc \in {"write", "cleanup", "done"} =>
    /\ Len(summaries) = Len(files)
    /\ \A n \in 1..Len(files) :
         /\ summaries[n].fileName = files[n].fileName
         /\ summaries[n].directory = files[n].directory
         /\ summaries[n].briefing = ItemBriefing(files[n])

\* a run of the largest report completed from a checkpoint of two chunks
C2_Witness ==
  /\ pc = "done"
  /\ startIndex = 2 * SaveEvery
  /\ Len(summaries) = MaxFiles

IsStale(pf, p) == IsSnapshot(pf) /\ pf.excelPath # p

\* C3 (stale snapshot never used): when the progress file names another report
\* than the one being processed, the run starts at index 0 with no rows, and no
\* workbook holds a row of another report.
C3_StaleSnapshotNeverUsed ==
  /\ [][(pc = "load" /\ IsStale(progressFile, excelReportPath) /\ pc' \in Running)
          => (i' = 0 /\ startIndex' = 0 /\ summaries' = <<>>)]_vars
  /\ [](\A p \in Paths : output[p].tag = "workbook" =>
          \A n \in 1..Len(output[p].rows) : output[p].rows[n].fileName[1] = p)

\* a run has started its loop while the progress file of another report, with
\* rows in it, is on disk
C3_Witness ==
  /\ pc = "fetch"
  /\ i = 0
  /\ IsStale(progressFile, excelReportPath)
  /\ Len(progressFile.summaries) > 0

Matches(pf, p) == IsSnapshot(pf) /\ pf.excelPath = p

\* C4 (resume does not reprocess): with a matching snapshot of k rows the loop
\* starts at k = lastProcessed with the snapshot's rows, these k rows are never
\* changed, no fetch or generation call is issued for an index below k, and
\* they are the first k rows of the workbook.
C4_ResumeDoesNotReprocess ==
  /\ [][(pc = "load" /\ Matches(progressFile, excelReportPath) /\ pc' \in Running)
          => /\ i' = Len(progressFile.summaries)
             /\ i' = progressFile.lastProcessed
             /\ startIndex' = i'
             /\ summaries' = progressFile.summaries]_vars
  /\ [][(pc \in Running \ {"load"} /\ pc' \in Running \cup {"done"})
          => /\ startIndex' = startIndex
             /\ SubSeq(summaries', 1, startIndex) = SubSeq(summaries, 1, startIndex)]_vars
  /\ [](\A c \in calls : c[2] >= startIndex)
  /\ [](pc \in {"cleanup", "done"} =>
          SubSeq(output[excelReportPath].rows, 1, startIndex)
            = SubSeq(summaries, 1, startIndex))

\* a resumed run has completed after issuing calls for the remaining files
C4_Witness ==
  /\ pc = "done"
  /\ startIndex = SaveEvery
  /\ <<"fetch", SaveEvery>> \in calls
  /\ \E c \in calls : c[1] = "generate"

\* C5 (snapshot invariant): every snapshot in the progress file has
\* lastProcessed equal to the number of its rows.
C5_SnapshotInvariant ==
  IsSnapshot(progressFile) =>
    progressFile.lastProcessed = Len(progressFile.summaries)

\* a snapshot written by a resumed run
C5_Witness ==
  /\ IsSnapshot(progressFile)
  /\ pc \in Running
  /\ startIndex > 0
  /\ progressFile.lastProcessed > startIndex

\* C6 (monotonic snapshot growth): of two snapshots saved one after the other
\* for the same report, the later has the rows of the earlier as a prefix and
\* a lastProcessed at least as large.
C6_MonotonicSnapshotGrowth ==
  [][(IsSnapshot(lastSaved) /\ IsSnapshot(lastSaved')
        /\ lastSaved'.excelPath = lastSaved.excelPath)
       => /\ IsPrefix(lastSaved.summaries, lastSaved'.summaries)
          /\ lastSaved'.lastProcessed >= lastSaved.lastProcessed]_vars

\* C7 (checkpoint prefix): a parseable progress file holds the results of the
\* first files of its report, in order and without a gap, and none for a file
\* at or past lastProcessed.
C7_CheckpointPrefix ==
  IsSnapshot(progressFile) =>
    /\ IsPrefix(progressFile.summaries,
                UninterruptedRun(catalog[progressFile.excelPath]))
    /\ Len(progressFile.summaries) <= progressFile.lastProcessed

\* the progress file holds two chunks
C7_Witness ==
  /\ IsSnapshot(progressFile)
  /\ Len(progressFile.summaries) = 2 * SaveEvery

\* C8 (atomic save): a process killed during the save leaves the complete
\* previous progress file or the complete new one.
C8_AtomicSave ==
  [][(pc = "save" /\ pc' = "killed")
       => progressFile' \in {progressFile,
                             Snapshot(excelReportPath, summaries, processed)}]_vars

\* C9 (corrupt checkpoint is fatal): a run that finds an unparseable progress
\* file halts before any item is processed.
C9_CorruptCheckpointIsFatal ==
  [][(pc = "load" /\ progressFile = Corrupt) => pc' \in {"failed", "killed"}]_vars

\* C10 (deletion ordering): the progress file is deleted only after every file
\* has a row and the workbook has been written; a run that is killed or whose
\* workbook write throws leaves the progress file on disk.
C10_DeletionOrdering ==
  [][(progressFile # Absent /\ progressFile' = Absent)
       => /\ pc = "cleanup"
          /\ pc' = "done"
          /\ Len(summaries) = Len(files)
          /\ output[excelReportPath] = Workbook(summaries)]_vars

\* a resumed run has completed and removed the progress file it started from
C10_Witness ==
  /\ pc = "done"
  /\ startIndex > 0
  /\ progressFile = Absent
  /\ output[excelReportPath] = Workbook(summaries)

\* C11 (a completed run emits the artifact and clears the checkpoint):
\* whenever generateFileSummaries has returned normally, the workbook of its
\* report is written and no progress file is on disk.
C11_CompletedRunEmitsAndClears ==
  pc \in {"done", "nofiles"} =>
    /\ output[excelReportPath].tag = "workbook"
    /\ progressFile = Absent

\* C12 (an interrupted run is resumable): a run interrupted after it has
\* produced at least one row and before the workbook is written leaves a
\* progress file that `resume` can continue from (parseable, naming the report).
C12_InterruptedRunLeavesCheckpoint ==
  [][(pc \in Running \ {"load", "cleanup"} /\ Len(summaries) >= 1
        /\ pc' = "killed")
       => Matches(progressFile', excelReportPath)]_vars

\* C13 (bounded rework): wherever a run is interrupted, at most 9 of the rows
\* it holds are missing from what the next run loads from the progress file.
C13_BoundedRework ==
  [][(pc \in Running /\ pc' = "killed")
       => Len(summaries) <= Len(ResumeFrom(progressFile', excelReportPath)) + 9]_vars

\* C14 (checkpoint cadence): a save is attempted exactly when the number of
\* rows produced by this run reaches a multiple of 10, and the snapshot it
\* writes holds all rows from index 0, the loaded ones included.
C14_CheckpointCadence ==
  /\ [][(pc = "push" /\ pc' \in Running)
          => (pc' = "save" <=>
                /\ Len(summaries') = Len(summaries) + 1
                /\ Len(summaries') > startIndex
                /\ \E k \in 1..MaxFiles : Len(summaries') = startIndex + k * 10)]_vars
  /\ [][(pc' = "save") => pc \in {"push", "save"}]_vars
  /\ [][(pc = "save" /\ IsSnapshot(progressFile') /\ progressFile' # progressFile)
          => /\ progressFile'.summaries = summaries
             /\ Len(progressFile'.summaries) = i + 1
             /\ IsPrefix(ResumeFrom(progressFile, excelReportPath), summaries)]_vars

\* a resumed run is about to save the loaded rows and a new chunk
C14_Witness ==
  /\ pc = "save"
  /\ startIndex = SaveEvery
  /\ Len(summaries) = 2 * SaveEvery

\* C15 (a failed save changes nothing in the run): after a save that threw, the
\* loop goes on with the next file with summaries unchanged, the workbook has
\* the rows of the uninterrupted run, and a later successful save holds every
\* row produced so far.
C15_SaveFailureHarmless ==
  /\ [][(pc = "save" /\ pc' \notin {"save", "killed"} /\ lastSaved' = lastSaved)
          => /\ summaries' = summaries
             /\ i' = i + 1
             /\ pc' = LoopHead(i + 1, files)]_vars
  /\ [](pc \in {"cleanup", "done"} =>
          output[excelReportPath].rows = UninterruptedRun(files))
  /\ [][(IsSnapshot(lastSaved') /\ lastSaved' # lastSaved)
          => lastSaved'.summaries = summaries]_vars

\* the save after the 10th file of a fresh run failed and the loop went on
C15_Witness ==
  /\ pc = "fetch"
  /\ i = SaveEvery
  /\ startIndex = 0
  /\ lastSaved = Absent
  /\ Len(summaries) = SaveEvery

\* C16 (retry budget): at most 3 attempts per call; when all 3 fail the call
\* returns the failure text; no attempt is issued after a success.
C16_RetryBudget ==
  /\ [](attempt <= 3 /\ Len(outcomes) <= 3)
  /\ [][(pc = "race" /\ Len(outcomes') = 3 /\ outcomes'[3] # "ok")
          => /\ briefing' = ApiFailure
             /\ pc' \in {"delay", "push"}]_vars
  /\ [][(pc # "race" /\ pc' = "race")
          => /\ \A k \in 1..Len(outcomes) : outcomes[k] # "ok"
             /\ attempt' = Len(outcomes) + 1]_vars
  /\ [](pc \in {"delay", "push"} /\ Len(outcomes) = 3 /\ outcomes[3] # "ok"
          => briefing = ApiFailure)

\* the call for a free row has failed three times and returned
C16_Witness ==
  /\ pc \in {"delay", "push"}
  /\ attempt = 3
  /\ Len(outcomes) = 3
  /\ outcomes[3] # "ok"
  /\ briefing = ApiFailure

\* C17 (backoff between attempts): after a failure of attempt n = 1 or 2 there
\* is exactly one wait before attempt n + 1, of n x 10 s after a 429 and of 5 s
\* after any other failure; 429, 429, success gives the waits 10 s, 20 s.
C17_Backoff ==
  /\ [](\A k \in 1..Len(waits) :
          /\ k <= Len(outcomes)
          /\ waits[k] = IF outcomes[k] = "429" THEN k * 10000 ELSE 5000)
  /\ [](pc \in Running =>
          Len(waits) = Cardinality({k \in 1..Len(outcomes) :
                                      k < 3 /\ outcomes[k] # "ok"}))
  /\ [][(pc # "race" /\ pc' = "race") => Len(waits) = attempt' - 1]_vars
  /\ [](outcomes = <<"429", "429", "ok">> =>
          waits = <<10000, 20000>> /\ attempt = 3)

\* rate limited twice, then success
C17_Witness ==
  /\ outcomes = <<"429", "429", "ok">>
  /\ waits = <<10000, 20000>>
  /\ pc \in {"delay", "push"}

\* C18 (waits of 10, 20 and 30 s): a call that is rate limited on all three
\* attempts has waited 10 s, 20 s and 30 s when it returns.
C18_RateLimitWaits ==
  (pc \in {"delay", "push"} /\ outcomes = <<"429", "429", "429">>)
    => waits = <<10000, 20000, 30000>>

\* C19 (timeout race): when the timer wins the race the attempt is a failure,
\* it is counted among the 3 attempts, and it is followed by the 5 s wait when
\* another attempt remains.
C19_TimeoutRace ==
  [][(pc = "race" /\ outcomes' = Append(outcomes, "timeout"))
       => /\ Len(outcomes') = attempt
          /\ attempt' = attempt
          /\ briefing'.text # "summary"
          /\ IF attempt < 3
               THEN pc' = "backoff" /\ waits' = Append(waits, 5000)
               ELSE pc' \in {"delay", "push"} /\ briefing' = ApiFailure]_vars

\* the timer won the race of an attempt and the 5 s wait is running
C19_Witness ==
  /\ pc = "backoff"
  /\ outcomes # <<>>
  /\ outcomes[Len(outcomes)] = "timeout"
  /\ waits[Len(waits)] = 5000

\* The remote calls that are issued and not settled.
InFlight == abandoned + (IF pc = "race" THEN 1 ELSE 0)

\* C20 (single in-flight call): at most one remote call is outstanding.
C20_SingleInFlight == InFlight <= 1

\* The positions of the process inside one iteration of the loop body.
InItem == {"fetch", "generate", "race", "backoff", "delay", "push"}

\* C21 (inter-item pacing): when the generation call of an item returns, with
\* a summary or with the failure text, and another item follows, the process
\* takes the delay before anything else; the delay is entered from nowhere
\* else, so not after a skipped item, and it leads to the push of the item;
\* hence a delay lies between the generation calls of two different items.
C21_InterItemPacing ==
  [][/\ (pc = "race" /\ pc' \notin {"race", "backoff", "killed"})
          => pc' = (IF i + 1 < Len(files) THEN "delay" ELSE "push")
     /\ (pc' = "delay" /\ pc # "delay")
          => (pc = "race" /\ <<"generate", i>> \in calls)
     /\ (pc = "fetch" /\ pc' \notin {"fetch", "killed"} /\ ~content'.ok)
          => pc' = "push"
     /\ (pc = "delay" /\ pc' \notin {"delay", "killed"}) => pc' = "push"
     /\ (pc' = "race" /\ pc = "generate" /\ attempt' = 1)
          => \A c \in calls : c[1] = "generate" => c[2] < i]_vars

C21_Witness ==
  /\ pc = "delay"
  /\ briefing = ApiFailure
  /\ \E c \in calls : c[1] = "fetch" /\ c[2] < i /\ <<"generate", c[2]>> \notin calls

\* C22 (per-item failures never stop the batch): no step inside an iteration
\* ends the run in failure; the push of an item appends exactly one row, the
\* row of that item, and goes on to the save, the next item or the end of
\* the loop; so the rows always number the items gone through.
C22_ItemFailuresNeverStopBatch ==
  /\ [][/\ pc \in InItem => pc' # "failed"
        /\ (pc = "push" /\ pc' \notin {"push", "killed"})
             => /\ Len(summaries') = Len(summaries) + 1
                /\ summaries'[Len(summaries')].fileName = files[i + 1].fileName
                /\ pc' \in {"save", "fetch", "write"}
        /\ (pc \in InItem \ {"push"} /\ pc' # "killed")
             => summaries' = summaries]_vars
  /\ [](pc \in InItem => Len(summaries) = i)

C22_Witness ==
  /\ pc = "write"
  /\ Len(summaries) = Len(files)
  /\ \E n \in 1..Len(summaries) : S3Outcome(n) = "error"
  /\ \E n \in 1..Len(summaries) : S3Outcome(n) = "binary"
  /\ \E n \in 1..Len(summaries) : summaries[n].briefing = ApiFailure

\* C23 (a content fetch failure marks the item Failed): the row of an item
\* whose download failed differs in its status from the row of an item whose
\* content was binary.
C23_FetchFailureMarkedFailed ==
  \A n \in 1..Len(summaries) : \A m \in 1..Len(summaries) :
    (S3Outcome(n) = "error" /\ S3Outcome(m) = "binary")
      => summaries[n].briefing # summaries[m].briefing

\* C24 (binary/text classification): an item whose content was fetched, of
\* length L with P non-printable characters, is skipped if and only if
\* P > 0.3 x L and goes to the generation call otherwise, L = 0 and
\* P = 30% of L included.
C24_Classification ==
  (dpc \in {"skipped", "generate"} /\ ~threw)
    => (dpc = "skipped" <=> 10 * SumNP(chunks) > 3 * SumLen(chunks))

\* C25 (content ceiling): a body of text of more than the ceiling, however
\* it is cut into chunks, gives a content of at most the ceiling that goes
\* to the generation call.
C25_CeilingKeepsPrefix ==
  (/\ dpc \in {"skipped", "generate"}
   /\ ~threw
   /\ SumLen(object) > 500000
   /\ SumNP(object) = 0)
    => (dpc = "generate" /\ ~fetched.null /\ fetched.len <= 500000)

\* A step in which the process started as cmd runs its command.
Runs(cmd) == pc = "main" /\ entry = cmd /\ pc' # "main"

\* C26 (status is purely observational): whatever the progress file and the
\* reports are, the step of status leaves the progress file, the reports and
\* the workbooks as they were, so creates no file, and ends the process.
C26_StatusObservational ==
  [][Runs("status")
       => /\ progressFile' = progressFile
          /\ catalog' = catalog
          /\ reportState' = reportState
          /\ output' = output
          /\ pc' \in {"exit0", "exit1"}]_vars

C26_Witness ==
  /\ entry = "status"
  /\ pc = "exit0"
  /\ progressFile = Corrupt

\* C27 (status exit code): status has exited with 0 exactly when the
\* progress file is absent or parseable, with a non-zero code when it is
\* corrupt.
C27_StatusExitCode ==
  (entry = "status" /\ pc \in Exited)
    => (ExitCode = 0 <=> progressFile # Corrupt)

\* C28 (resume exit code on catalog failure): when the report named by the
\* progress file is missing, unreadable or without its sheet, resume exits
\* with 1 and processes no item.
C28_ResumeCatalogFailure ==
  [][(/\ Runs("resume")
      /\ IsSnapshot(progressFile)
      /\ reportState[progressFile.excelPath] # "ok")
       => (pc' = "exit1" /\ calls' = {})]_vars

\* C29 (clean is idempotent and unconditional): after clean no progress file
\* exists, whatever was there before, and clean has exited with 0.
C29_CleanUnconditional ==
  [][Runs("clean") => (progressFile' = Absent /\ pc' = "exit0")]_vars

\* C30 (missing credentials are fatal before the loop): a process started
\* standalone, as resume or as the daily script without CLAUDE_API_KEY
\* never enters generateFileSummaries, so fetches no item, sends none to
\* generation and appends no result, and it ends with exit code 1; only a
\* resume that finds nothing to resume, and so starts no run, ends with 0.
C30_MissingCredentialsFatal ==
  (~apiKey /\ entry \in {"standalone", "resume", "daily"})
    => /\ calls = {}
       /\ summaries = <<>>
       /\ pc \in {"main", "exit1"} \cup (IF entry = "resume" THEN {"exit0"} ELSE {})

C36_ExitZeroImpliesArtifact ==
  (entry \in {"resume", "standalone"} /\ pc \in Exited /\ ExitCode = 0)
    => pc = "done"

\* C37 (a run leaves another report's checkpoint untouched): while
\* generateFileSummaries runs over a report, a progress file that names
\* another report stays on disk as it is.
C37_OtherCheckpointUntouched ==
  [][(pc \in Running /\ IsStale(progressFile, excelReportPath))
       => progressFile' = progressFile]_vars

\* C35 (catalog changed between crash and resume): the workbook a run has
\* written has exactly one row per item of the report as it is now, in the
\* order of the report.
C35_OneRowPerCurrentItem ==
  pc = "cleanup"
    => /\ IsWorkbook(output[excelReportPath])
       /\ Len(output[excelReportPath].rows) = Len(catalog[excelReportPath])
       /\ \A n \in 1..Len(catalog[excelReportPath]) :
            output[excelReportPath].rows[n].fileName
              = catalog[excelReportPath][n].fileName

\* C38: the promise that loses Promise.race has no effect when it settles
\* afterwards (the timer firing after a result, the call fulfilling or
\* rejecting after the timeout): the returned value, the attempt counter, the
\* position of the function and the results sequence stay as they are, and no
\* 'unhandledRejection' is ever raised.
C38_LoserHasNoEffect ==
  /\ [][(\E k \in 1..Len(raceWinner) :
            /\ raceWinner[k] # "none"
            /\ apiPromise'[k] # apiPromise[k]
                 \/ timeoutPromise'[k] # timeoutPromise[k]) =>
          /\ rResult' = rResult
          /\ rAttempt' = rAttempt
          /\ rpc' = rpc
          /\ raceWinner' = raceWinner
          /\ summaries' = summaries
          /\ unhandled' = unhandled]_vars
  /\ [](unhandled = 0)

\* An attempt lost to the timer whose call rejected afterwards, then an
\* attempt won by the call whose timer fired after the function returned.
C38_Witness ==
  /\ rpc = "returned"
  /\ \E k \in 1..Len(raceWinner) :
       raceWinner[k] = "timer" /\ apiPromise[k] \in {"429", "rejected"}
  /\ \E k \in 1..Len(raceWinner) :
       raceWinner[k] = "api" /\ timeoutPromise[k] = "rejected"

BatchCompleted == pc \in {"bcleanup", "done"} /\ batchNum > 0

\* C32 (batch orchestrator, no duplicate and no lost work): when main has
\* written the workbook for a report of N rows, and no save failed on the
\* way, the workbook has exactly N rows and row n is the result of file n,
\* whatever the progress file held when main started.
C32_BatchExactlyOnce ==
  (BatchCompleted /\ ~saveFailed)
    => /\ Len(allSummaries) = Len(files)
       /\ output[excelReportPath] = Workbook(BatchReference(files))

\* C33 (batch orchestrator, failed saves): in a run that started without a
\* progress file, whatever saves fail, every batch returns the results of all
\* the files processed so far, once each and in the order of the report, and
\* the workbook holds them all.
C33_BatchSaveFailureHarmless ==
  freshStart
    => /\ pc \in {"bload", "bwrite"}
            => allSummaries
                 = SubSeq(BatchReference(files), 1,
                          Min(batchNum * BATCH_SIZE, Len(files)))
       /\ BatchCompleted
            => output[excelReportPath] = Workbook(BatchReference(files))

\* C34 (batch orchestrator, stale snapshot): a batch starts from the rows of
\* the progress file only if the file names the report being processed, and
\* the workbook written for a report holds no row of another report.
C34_BatchNoStaleSnapshot ==
  /\ (pc = "bitem" /\ i = startIndex /\ IsStale(progressFile, excelReportPath))
       => summaries = <<>>
  /\ BatchCompleted
       => \A n \in 1..Len(output[excelReportPath].rows) :
            output[excelReportPath].rows[n].fileName[1] = excelReportPath

FailedStep(s) ==
  errorFired[s] \/ (closeCode[s].fired /\ ~IsZero(closeCode[s]))

\* C40 (pipeline step ordering): step 2 is started only after the child of
\* step 1 has closed with code 0; after a step whose child closed with another
\* code or could not be spawned no further step is started, and main leaves
\* such a step only through process.exit(1), never finishing normally; the
\* promise of a step, once settled, never changes, whichever of the events
\* 'error' and 'close' fire afterwards.
C40_PipelineOrdering ==
  /\ [](Len(started) = 2 => (IsZero(closeCode[1]) /\ ~errorFired[1]))
  /\ [][(\E s \in Steps : FailedStep(s)) => Len(started') <= Len(started)]_vars
  /\ [](ppc = "finished" => \A s \in Steps : ~FailedStep(s))
  /\ [][(ppc = "await" /\ FailedStep(Len(started)) /\ ppc' # ppc)
          => ppc' = "exit1"]_vars
  /\ [][ppc \notin {"finished", "exit1"} =>
          \A s \in Steps : promise[s] \in {"resolved", "rejected"}
                              => promise'[s] = promise[s]]_vars
  /\ [](\A s \in Steps : promise[s] = "rejected" <=> FailedStep(s))

\* Step 2 was started after step 1 closed with 0, could not be spawned, both
\* of its events fired, and the pipeline has ended with exit code 1.
C40_Witness ==
  /\ ppc = "exit1"
  /\ Len(started) = 2
  /\ IsZero(closeCode[1])
  /\ errorFired[2] /\ closeCode[2].fired
  /\ settleCalls[2] = 2
  /\ promise[2] = "rejected"

TypeOK ==
  /\ pc \in Stopped \cup Running \cup BatchRunning \cup {"main"}
  /\ progressFile.tag \in {"absent", "corrupt", "snapshot"}
  /\ i <= MaxFiles

====
